---------------------------- MODULE Spec2Model ----------------------------
(***************************************************************************)
(* A model of src/nce.py: NCELoss (noise contrastive estimation loss) and  *)
(* IndexLinear (a linear layer decoding only the rows of given indices).   *)
(*                                                                         *)
(* Numbers.  Tensor entries are exact rationals <<n, d>> (d > 0, lowest    *)
(* terms).  exp is taken on integer arguments and modelled by the power    *)
(* 2^x: like e^x it is positive, strictly increasing and turns sums into   *)
(* products, which is all the code relies on.  log is kept symbolic: a     *)
(* tensor entry produced by torch.log, and every sum of such entries, is   *)
(* a record [coef, terms, nan] that stands for coef * SUM log(a) over the  *)
(* bag `terms` of rationals a; nan marks the float NaN of 0/0.             *)
(*                                                                         *)
(* Indices are 0-based as in the source; a tensor of length n is a         *)
(* sequence whose entry at index i is seq[i + 1].                          *)
(*                                                                         *)
(* The @profile decorator of forward (line 63) is taken to be the          *)
(* identity, as under line_profiler, and .cuda() / torch.cuda.synchronize  *)
(* to leave values alone.  The batch may be empty (N = 0).                 *)
(***************************************************************************)
EXTENDS Integers, Sequences, FiniteSets, Bags, TLC

(***************************** bounds *************************************)
\* vocabulary size: the ntokens every NCELoss of the model is built with
V == 3
\* embedding size: the emb_size every NCELoss of the model is built with
E == 2
\* largest batch (rows of input, entries of target) of a forward call
MaxN == 2
\* largest noise_ratio an NCELoss of the model is built with
MaxK == 2

(***************************** rationals **********************************)
Abs(x) == IF x < 0 THEN -x ELSE x

RECURSIVE GCD(_, _)
GCD(a, b) == IF b = 0 THEN a ELSE GCD(b, a % b)

\* the rational n/d in lowest terms with a positive denominator (d # 0)
Rat(n, d) ==
    LET s == IF d < 0 THEN -1 ELSE 1
        g == GCD(Abs(n), Abs(d))
    IN  <<(s * n) \div g, (s * d) \div g>>

Q(n) == <<n, 1>>
RAdd(a, b) == Rat(a[1] * b[2] + b[1] * a[2], a[2] * b[2])
RMul(a, b) == Rat(a[1] * b[1], a[2] * b[2])
RDiv(a, b) == Rat(a[1] * b[2], a[2] * b[1])
RLess(a, b) == a[1] * b[2] < b[1] * a[2]
RZero == Q(0)

RECURSIVE RSum(_)
RSum(s) == IF s = <<>> THEN RZero ELSE RAdd(Head(s), RSum(Tail(s)))

\* Tensor.exp() on an integer-valued entry x
exp(x) == IF x >= 0 THEN <<2 ^ x, 1>> ELSE <<1, 2 ^ (-x)>>

\* torch.log of one entry a > 0
log(a) == [coef |-> Q(1), terms |-> SetToBag({a}), nan |-> FALSE]
\* the sum of no entries
LogZero == [coef |-> Q(1), terms |-> EmptyBag, nan |-> FALSE]
\* x + y of two log-valued entries with the same coefficient
LogAdd(x, y) == [coef |-> x.coef, terms |-> x.terms (+) y.terms,
                 nan |-> x.nan \/ y.nan]
\* c * x for a rational c
LogScale(c, x) == [x EXCEPT !.coef = RMul(c, x.coef)]
\* x / n for an integer n: float division, 0/0 and x/0 of a zero sum are NaN
LogDiv(x, n) ==
    IF n = 0 THEN [x EXCEPT !.nan = TRUE]
    ELSE [x EXCEPT !.coef = RDiv(x.coef, Q(n))]

RECURSIVE LogSumSeq(_)
\* torch.sum over a 1-d tensor of log-valued entries
LogSumSeq(s) ==
    IF s = <<>> THEN LogZero ELSE LogAdd(LogSumSeq(Tail(s)), Head(s))


(***************************** tensors ************************************)
\* Build-dependent behaviour of the tensor library, fixed for a run:
\*   "legacy": an index tensor with a negative entry raises, and the truth
\*             value of any non-empty tensor raises;
\*   "modern": negative entries of an index tensor count from the end, and
\*             the truth value of a one-element tensor is its entry # 0.
Builds == {"legacy", "modern"}

VARIABLES
    build,                \* the tensor library's behaviour, in Builds
    heap,                 \* tensor storage: reference |-> V x E matrix
    ctor,                 \* the arguments the constructor was called with
    self,                 \* the NCELoss object, NoObject when there is none
    pc,                   \* "new", "failed", "idle", "loop" or "done"
    input, target,        \* the arguments of the current forward call
    idx,                  \* examples the loop of forward has completed
    data_prob,            \* forward's buffers
    noise_in_data_probs,
    noise_probs,
    drawn,                \* noise_samples of each loop iteration so far
    passed,               \* `indices` of each _get_prob call so far
    logits,               \* what the decoder returned to each _get_prob call
    rnn_loss, noise_loss, \* forward's per-example terms
    loss,                 \* the value forward returned
    outcome               \* "none", "ok" or the exception forward raised

config == <<build, heap, ctor, self>>
locals == <<input, target, idx, data_prob, noise_in_data_probs, noise_probs,
            drawn, passed, logits, rnn_loss, noise_loss, loss, outcome>>
vars == <<config, pc, locals>>

\* The 1-based position that indexing a dimension of length n with the
\* index-tensor entry i reads, or 0 when the indexing raises IndexError.
Resolve(n, i) ==
    IF 0 <= i /\ i < n THEN i + 1
    ELSE IF -n <= i /\ i < 0 /\ build = "modern" THEN n + i + 1
    ELSE 0

\* tensor[indices] raises
IndexRaises(tensor, indices) ==
    \E m \in 1..Len(indices) : Resolve(Len(tensor), indices[m]) = 0

\* tensor[indices] for an index tensor: one entry per index, in order
Gather(tensor, indices) ==
    [m \in 1..Len(indices) |-> tensor[Resolve(Len(tensor), indices[m])]]

RECURSIVE Dot(_, _)
Dot(x, w) == IF x = <<>> THEN 0 ELSE Head(x) * Head(w) + Dot(Tail(x), Tail(w))

\* F.linear(input, weight, bias) for a 1 x E input: input . weight^T + bias
F_linear(x, weight, bias) ==
    [m \in 1..Len(weight) |-> Dot(x, weight[m]) + bias[m]]

\* IndexLinear.forward that gathers the weight rows but not the bias entries
IndexLinear_forward_ungathered_bias(weight, bias, x, indices) ==
    IF IndexRaises(weight, indices) \/ IndexRaises(bias, indices)
    THEN [raises |-> TRUE, out |-> <<>>]
    ELSE [raises |-> FALSE,
          out |-> F_linear(x, Gather(weight, indices),
                           [m \in 1..Len(indices) |-> bias[((m - 1) % Len(bias)) + 1]])]

\* IndexLinear.forward(input, indices), flattened by .view(-1)
IndexLinear_forward(weight, bias, x, indices) ==
    IF IndexRaises(weight, indices) \/ IndexRaises(bias, indices)
    THEN [raises |-> TRUE, out |-> <<>>]
    ELSE [raises |-> FALSE,
          out |-> F_linear(x, Gather(weight, indices), Gather(bias, indices))]

\* bool(tensor) of a V x E weight: "raise", "true" or "false"
TensorBool(w) ==
    LET numel == Len(w) * (IF w = <<>> THEN 0 ELSE Len(w[1]))
    IN  IF numel = 0 THEN "false"
        ELSE IF numel = 1 /\ build = "modern"
             THEN (IF w[1][1] # 0 THEN "true" ELSE "false")
        ELSE "raise"

(***************************** inputs *************************************)
Uniform(n) == [i \in 1..n |-> Rat(1, n)]
\* token 0 is never noise, and later tokens are likelier
Skewed(n) == [i \in 1..n |-> Rat(2 * (i - 1), n * (n - 1))]
AllZero(n) == [i \in 1..n |-> RZero]
Negative(n) == [i \in 1..n |-> IF i = 1 THEN Rat(-1, n) ELSE Rat(2, n)]
\* one entry too many, with all the mass on the last two
TooLong(n) == [i \in 1..(n + 1) |-> IF i >= n THEN Rat(1, 2) ELSE RZero]
NoiseArgs == {Uniform(V), Skewed(V), AllZero(V), Negative(V),
              Uniform(V - 1), TooLong(V)}
NormTerms == {0, 1}

\* decoder parameters: the identity-padded weight and one that is not
Weights == {[i \in 1..V |-> [j \in 1..E |-> IF i = j THEN 1 ELSE 0]],
            [i \in 1..V |-> [j \in 1..E |-> ((i + j) % 2) + j - 1]]}
InitBias == [i \in 1..V |-> i % 2]
EncWeight == [i \in 1..V |-> [j \in 1..E |-> IF i = j THEN 1 ELSE 0]]

Embeddings == {[j \in 1..E |-> IF j = 1 THEN 1 ELSE 0], [j \in 1..E |-> j]}
Targets == (-1)..V

NoObject == [none |-> TRUE]
NoLoss == [coef |-> RZero, terms |-> EmptyBag, nan |-> FALSE]

(***************************** NCELoss ************************************)
\* torch.multinomial(noise, k, replacement=True): the draws it can return
multinomial(noise, k) ==
    LET n == Len(noise)
    IN  IF (\E i \in 1..n : RLess(noise[i], RZero)) \/ ~RLess(RZero, RSum(noise))
        THEN [raises |-> TRUE, samples |-> {}]
        ELSE [raises |-> FALSE,
              samples |-> [1..k -> {i - 1 : i \in {j \in 1..n : RLess(RZero, noise[j])}}]]

\* probs.sub(self.norm_term).exp()
Transform(probs) == [m \in 1..Len(probs) |-> exp(probs[m] - self.norm_term)]

\* _get_prob that concatenates the target after the noise indices
_get_prob_target_last(embedding, target_idx, noise_idx) ==
    LET indices == noise_idx \o <<target_idx>>
        d == IndexLinear_forward(heap[self.decoder.weight], self.decoder.bias,
                                 embedding, indices)
        probs == Transform(d.out)
    IN  [raises |-> d.raises, indices |-> indices, out |-> d.out,
         data |-> IF d.raises THEN RZero ELSE probs[1],
         noise |-> IF d.raises THEN <<>> ELSE SubSeq(probs, 2, Len(probs))]

\* NCELoss._get_prob(embedding, target_idx, noise_idx)
_get_prob(embedding, target_idx, noise_idx) ==
    LET indices == <<target_idx>> \o noise_idx
        d == IndexLinear_forward(heap[self.decoder.weight], self.decoder.bias,
                                 embedding, indices)
        probs == Transform(d.out)
    IN  [raises |-> d.raises, indices |-> indices, out |-> d.out,
         data |-> IF d.raises THEN RZero ELSE probs[1],
         noise |-> IF d.raises THEN <<>> ELSE SubSeq(probs, 2, Len(probs))]

\* the buffers forward allocates for a batch of n examples (torch.zeros)
Zeros(n) == [i \in 1..n |-> RZero]
Zeros2(n, k) == [i \in 1..n |-> [j \in 1..k |-> RZero]]

\* the locals of a forward call that has not reached its loop
FreshLocals ==
    /\ idx' = 0
    /\ drawn' = <<>> /\ passed' = <<>> /\ logits' = <<>>
    /\ rnn_loss' = <<>> /\ noise_loss' = <<>>
    /\ loss' = NoLoss

\* forward raises `exception`: the call is over and returns nothing
Raise(exception) ==
    /\ pc' = "done"
    /\ outcome' = exception
    /\ loss' = NoLoss

Init ==
    /\ build \in Builds
    /\ heap = [r \in {"enc"} |-> EncWeight]
    /\ ctor = NoObject
    /\ self = NoObject
    /\ pc = "new"
    /\ input = <<>> /\ target = <<>> /\ idx = 0
    /\ data_prob = <<>> /\ noise_in_data_probs = <<>> /\ noise_probs = <<>>
    /\ drawn = <<>> /\ passed = <<>> /\ logits = <<>>
    /\ rnn_loss = <<>> /\ noise_loss = <<>>
    /\ loss = NoLoss
    /\ outcome = "none"

\* NCELoss.__init__(ntokens = V, emb_size = E, noise, noise_ratio, norm_term,
\*                  size_average, decoder_weight)
NCELoss_init ==
    /\ pc = "new"
    /\ \E noise \in NoiseArgs, noise_ratio \in 1..MaxK, norm_term \in NormTerms,
          size_average \in BOOLEAN, decoder_weight \in {"None", "enc"},
          w \in Weights :
        LET tie == IF decoder_weight = "None" THEN "false"
                   ELSE TensorBool(heap[decoder_weight])
        IN  /\ ctor' = [noise |-> noise, noise_ratio |-> noise_ratio,
                         norm_term |-> norm_term, size_average |-> size_average,
                         decoder_weight |-> decoder_weight]
            /\ IF tie = "raise"
               THEN /\ pc' = "failed"
                    /\ self' = NoObject
                    /\ heap' = heap
               ELSE /\ pc' = "idle"
                    /\ heap' = [r \in {"enc", "dec"} |->
                                   IF r = "enc" THEN heap["enc"] ELSE w]
                    /\ self' = [noise |-> noise,
                                noise_ratio |-> noise_ratio,
                                norm_term |-> norm_term,
                                ntokens |-> V,
                                size_average |-> size_average,
                                decoder |->
                                  [weight |-> IF tie = "true" THEN decoder_weight
                                              ELSE "dec",
                                   bias |-> InitBias]]
    /\ UNCHANGED <<build, locals>>

\* forward accepts shapes other than the asserted ones
SizeAssertAtLeast(nr, nt) == nr >= nt

\* assert input.size(0) == target.size(0)
SizeAssert(nr, nt) == nr = nt

\* forward that rescales self.noise in place
ForwardFrameScalesNoise ==
    /\ self' = [self EXCEPT !.noise =
                   [i \in 1..Len(self.noise) |->
                       RMul(Q(self.noise_ratio + 1), self.noise[i])]]
    /\ UNCHANGED <<build, heap, ctor>>

\* forward assigns no attribute of self and writes no parameter
ForwardFrame == UNCHANGED config

\* NCELoss.forward(input, target), up to its loop
forward ==
    /\ pc = "idle"
    /\ \E nr \in 0..MaxN, nt \in 0..MaxN :
       \E in \in [1..nr -> Embeddings], tg \in [1..nt -> Targets] :
        /\ input' = in
        /\ target' = tg
        /\ FreshLocals
        /\ IF ~SizeAssert(nr, nt)
           THEN /\ Raise("AssertionError")
                /\ UNCHANGED <<data_prob, noise_in_data_probs, noise_probs>>
           ELSE /\ data_prob' = Zeros(nt)
                /\ noise_in_data_probs' = Zeros2(nt, self.noise_ratio)
                /\ noise_probs' = Zeros2(nt, self.noise_ratio)
                /\ pc' = "loop"
                /\ outcome' = "none"
    /\ ForwardFrame

\* one iteration of `for idx, target_idx in enumerate(target)`
forward_loop ==
    /\ pc = "loop"
    /\ idx < Len(target)
    /\ LET m == multinomial(self.noise, self.noise_ratio)
       IN  IF m.raises
           THEN /\ Raise("RuntimeError")
                /\ UNCHANGED <<idx, data_prob, noise_in_data_probs, noise_probs,
                               drawn, passed, logits>>
           ELSE \E noise_samples \in m.samples :
                LET g == _get_prob(input[idx + 1], target[idx + 1], noise_samples)
                IN  /\ drawn' = Append(drawn, noise_samples)
                    /\ passed' = Append(passed, g.indices)
                    /\ IF g.raises
                       THEN /\ Raise("IndexError")
                            /\ UNCHANGED <<idx, data_prob, noise_in_data_probs,
                                           noise_probs, logits>>
                       ELSE /\ logits' = Append(logits, g.out)
                            /\ data_prob' = [data_prob EXCEPT ![idx + 1] = g.data]
                            /\ noise_in_data_probs' =
                                 [noise_in_data_probs EXCEPT ![idx + 1] = g.noise]
                            /\ noise_probs' =
                                 [noise_probs EXCEPT
                                    ![idx + 1] = Gather(self.noise, noise_samples)]
                            /\ idx' = idx + 1
                            /\ UNCHANGED <<pc, outcome, loss>>
    /\ ForwardFrame
    /\ UNCHANGED <<input, target, rnn_loss, noise_loss>>

\* rnn_loss with its ratio upside down
RnnLossInverted(dp, noise_of_target) ==
    [i \in 1..Len(dp) |->
        log(RDiv(RAdd(dp[i], RMul(Q(self.noise_ratio), noise_of_target[i])), dp[i]))]

\* rnn_loss: torch.log(data_prob / (data_prob + noise_ratio * noise[target]))
RnnLoss(dp, noise_of_target) ==
    [i \in 1..Len(dp) |->
        log(RDiv(dp[i], RAdd(dp[i], RMul(Q(self.noise_ratio), noise_of_target[i]))))]

\* noise_loss that pairs sample j's noise probability with the model
\* probability of another sample of the example
NoiseLossMispaired(np, nidp) ==
    [i \in 1..Len(np) |->
        LogSumSeq([j \in 1..Len(np[i]) |->
            log(RDiv(RMul(Q(self.noise_ratio), np[i][j]),
                     RAdd(nidp[i][Len(np[i]) + 1 - j],
                          RMul(Q(self.noise_ratio), np[i][j]))))])]

\* noise_loss: torch.sum(torch.log(k * noise_probs /
\*                                 (noise_in_data_probs + k * noise_probs)), 1)
NoiseLoss(np, nidp) ==
    [i \in 1..Len(np) |->
        LogSumSeq([j \in 1..Len(np[i]) |->
            log(RDiv(RMul(Q(self.noise_ratio), np[i][j]),
                     RAdd(nidp[i][j], RMul(Q(self.noise_ratio), np[i][j]))))])]

\* the reduction averaging over noise_ratio, the buffers' other dimension
ReductionOverNoiseRatio(size_average, rl, nl, n) ==
    LET total == LogScale(Q(-1),
                          LogSumSeq([i \in 1..Len(rl) |-> LogAdd(rl[i], nl[i])]))
    IN  IF size_average THEN LogDiv(total, self.noise_ratio) ELSE total

\* loss = -1 * torch.sum(rnn_loss + noise_loss), averaged over the batch of
\* n = target.size(0) examples when size_average
Reduction(size_average, rl, nl, n) ==
    LET total == LogScale(Q(-1),
                          LogSumSeq([i \in 1..Len(rl) |-> LogAdd(rl[i], nl[i])]))
    IN  IF size_average THEN LogDiv(total, n) ELSE total

\* NCELoss.forward after its loop
forward_reduce ==
    /\ pc = "loop"
    /\ idx = Len(target)
    /\ IF IndexRaises(self.noise, target)
       THEN /\ Raise("IndexError")
            /\ UNCHANGED <<rnn_loss, noise_loss>>
       ELSE /\ rnn_loss' = RnnLoss(data_prob, Gather(self.noise, target))
            /\ noise_loss' = NoiseLoss(noise_probs, noise_in_data_probs)
            /\ loss' = Reduction(self.size_average, rnn_loss', noise_loss',
                               Len(target))
            /\ outcome' = "ok"
            /\ pc' = "done"
    /\ ForwardFrame
    /\ UNCHANGED <<input, target, idx, data_prob, noise_in_data_probs,
                   noise_probs, drawn, passed, logits>>

\* The call is over: its value or exception is with the caller and its
\* per-call tensors are discarded.
forward_return ==
    /\ pc = "done"
    /\ pc' = "idle"
    /\ input' = <<>> /\ target' = <<>>
    /\ data_prob' = <<>> /\ noise_in_data_probs' = <<>> /\ noise_probs' = <<>>
    /\ FreshLocals
    /\ outcome' = "none"
    /\ UNCHANGED config

\* The optimizer, between forward calls, writes the tensor that is the
\* decoder's weight (through whichever reference to it).
OptimizerStep ==
    /\ pc = "idle"
    /\ \E w \in Weights :
        /\ heap[self.decoder.weight] # w
        /\ heap' = [heap EXCEPT ![self.decoder.weight] = w]
    /\ UNCHANGED <<build, ctor, self, pc, locals>>

Next ==
    \/ NCELoss_init
    \/ forward
    \/ forward_loop
    \/ forward_reduce
    \/ forward_return
    \/ OptimizerStep

Spec == Init /\ [][Next]_vars

(***************************** properties *********************************)
\* the current forward call has returned a loss
Returned == pc = "done" /\ outcome = "ok"
N == Len(target)
K == self.noise_ratio
InVocab(tok) == 0 <= tok /\ tok < V

\* What the formulas of section 4.3 give for the current call, from its
\* input, its target, the noise indices drawn and the current parameters.
Score(x, tok) ==
    LET r == Resolve(V, tok)
    IN  Dot(x, heap[self.decoder.weight][r]) + self.decoder.bias[r]
ModelProb(x, tok) == exp(Score(x, tok) - self.norm_term)
NoiseAt(tok) == self.noise[Resolve(Len(self.noise), tok)]
DataRatio(i) ==
    RDiv(ModelProb(input[i], target[i]),
         RAdd(ModelProb(input[i], target[i]), RMul(Q(K), NoiseAt(target[i]))))
NoiseRatio(i, j) ==
    RDiv(RMul(Q(K), NoiseAt(drawn[i][j])),
         RAdd(ModelProb(input[i], drawn[i][j]), RMul(Q(K), NoiseAt(drawn[i][j]))))
ExampleTerms(i) ==
    LET RECURSIVE Upto(_)
        Upto(j) == IF j = 0 THEN SetToBag({DataRatio(i)})
                   ELSE Upto(j - 1) (+) SetToBag({NoiseRatio(i, j)})
    IN  Upto(K)
ExpectedSum ==
    LET RECURSIVE Upto(_)
        Upto(i) == IF i = 0 THEN EmptyBag ELSE Upto(i - 1) (+) ExampleTerms(i)
    IN  [coef |-> Q(-1), terms |-> Upto(N), nan |-> FALSE]
ExpectedLoss ==
    IF ~self.size_average THEN ExpectedSum
    ELSE IF N = 0 THEN [ExpectedSum EXCEPT !.nan = TRUE]
    ELSE [ExpectedSum EXCEPT !.coef = Rat(-1, N)]

\* a noise distribution the specification admits for a vocabulary of V
ValidNoise(noise) ==
    /\ Len(noise) = V
    /\ \A i \in 1..Len(noise) : ~RLess(noise[i], RZero)
    /\ RLess(RZero, RSum(noise))

\* the argument of a single torch.log entry
LogArg(x) == CHOOSE a \in BagToSet(x.terms) : TRUE

\* C1: a forward call whose input has a number of rows other than the
\* length of target ends in the assertion's error before any noise is
\* sampled or any projection computed, and returns no loss.
C1_ShapeMismatchRejected ==
    (pc \in {"loop", "done"} /\ Len(input) # Len(target))
        => /\ pc = "done"
           /\ outcome = "AssertionError"
           /\ drawn = <<>> /\ passed = <<>> /\ logits = <<>>
           /\ loss = NoLoss
C1_Witness ==
    /\ pc = "done" /\ outcome = "AssertionError"
    /\ Len(input) = MaxN /\ Len(target) = MaxN - 1

\* C2: every index list _get_prob passes to the decoder has length K + 1,
\* the example's target at position 0 and the example's K noise draws, in
\* draw order, at positions 1..K; data_prob[idx] is the transformed score of
\* position 0 and noise_in_data_probs[idx] those of positions 1..K.
C2_IndexLayout ==
    pc \in {"loop", "done"} =>
        /\ Len(passed) = Len(drawn)
        /\ \A i \in 1..Len(passed) :
            /\ Len(passed[i]) = K + 1
            /\ passed[i][1] = target[i]
            /\ SubSeq(passed[i], 2, K + 1) = drawn[i]
        /\ \A i \in 1..Len(logits) :
            /\ logits[i] = IndexLinear_forward(heap[self.decoder.weight],
                                               self.decoder.bias,
                                               input[i], passed[i]).out
            /\ data_prob[i] = exp(logits[i][1] - self.norm_term)
            /\ noise_in_data_probs[i] =
                 [j \in 1..K |-> exp(logits[i][j + 1] - self.norm_term)]
C2_Witness ==
    /\ Returned /\ N = MaxN /\ K = MaxK
    /\ \E i \in 1..N : drawn[i][1] # drawn[i][K] /\ drawn[i][1] # target[i]
    /\ \E i \in 1..N : data_prob[i] # noise_in_data_probs[i][1]

\* C3: for index sequences over [0, V), IndexLinear.forward returns one
\* scalar per index, the m-th being dot(embedding, weight[I[m]]) + bias[I[m]],
\* the entry the full V-length projection has at I[m]; repeated indices each
\* get their entry.
C3_ProjectionEquivalence ==
    \A i \in 1..Len(logits) :
        (\A m \in 1..Len(passed[i]) : InVocab(passed[i][m])) =>
            /\ Len(logits[i]) = Len(passed[i])
            /\ \A m \in 1..Len(passed[i]) :
                logits[i][m] =
                    F_linear(input[i], heap[self.decoder.weight],
                             self.decoder.bias)[passed[i][m] + 1]
C3_Witness ==
    /\ Returned /\ K >= 2
    /\ \E i \in 1..Len(logits) :
        /\ \A m \in 1..Len(passed[i]) : InVocab(passed[i][m])
        /\ passed[i][2] = passed[i][1]
        /\ passed[i][3] # passed[i][1]
        /\ logits[i][3] # logits[i][1]

\* C4: with size_average disabled, the loss forward returns is minus the sum
\* over the examples of log(data_prob / (data_prob + K * noise[target])) plus,
\* for each of the example's K draws s, log(K * noise[s] / (q + K * noise[s]))
\* with q the model's pseudo-probability of that same s for that example.
C4_LossFormula ==
    (Returned /\ ~self.size_average) => loss = ExpectedSum
C4_Witness ==
    /\ Returned /\ ~self.size_average /\ N = MaxN /\ K >= 2
    /\ \E i \in 1..N :
        /\ drawn[i][1] # drawn[i][2]
        /\ noise_in_data_probs[i][1] # noise_in_data_probs[i][2]
        /\ noise_probs[i][1] # noise_probs[i][2]

\* C5: for a batch of N >= 1 examples, the loss forward returns with
\* size_average is the loss it returns for the same call without it,
\* divided by N.
C5_SizeAverage ==
    (Returned /\ self.size_average /\ N >= 1)
        => loss = LogDiv(Reduction(FALSE, rnn_loss, noise_loss, N), N)
C5_Witness ==
    Returned /\ self.size_average /\ N = MaxN /\ N # K

\* C6 (as claimed): constructing NCELoss with a tied weight reference
\* succeeds and the decoder's weight is that very tensor.
C6_TiedWeightShared ==
    (pc # "new" /\ ctor.decoder_weight # "None")
        => (pc # "failed" /\ self.decoder.weight = ctor.decoder_weight)

\* C7 (as claimed): no NCELoss object exists whose noise distribution has a
\* negative weight, a zero total or a length other than ntokens.
C7_InvalidNoiseRejected ==
    pc \in {"idle", "loop", "done"} => ValidNoise(self.noise)

C9_StrictlyMonotone ==
    Returned =>
        \A i, j \in 1..N :
            (target[i] = target[j] /\ logits[i][1] < logits[j][1])
                => RLess(LogArg(rnn_loss[i]), LogArg(rnn_loss[j]))

\* C9 (amended): the same, for targets whose noise probability is positive;
\* for a target of noise probability 0 the data term is log(1) whatever the
\* score.
C9_MonotoneForPositiveNoise ==
    Returned =>
        \A i, j \in 1..N :
            (target[i] = target[j] /\ logits[i][1] < logits[j][1])
                => IF RLess(RZero, NoiseAt(target[i]))
                   THEN RLess(LogArg(rnn_loss[i]), LogArg(rnn_loss[j]))
                   ELSE LogArg(rnn_loss[i]) = Q(1) /\ LogArg(rnn_loss[j]) = Q(1)
C9_Witness ==
    /\ Returned
    /\ \E i, j \in 1..N :
        /\ target[i] = target[j] /\ logits[i][1] < logits[j][1]
        /\ RLess(RZero, NoiseAt(target[i]))
        /\ RLess(LogArg(rnn_loss[i]), LogArg(rnn_loss[j]))

\* C10: no step of a forward call changes the noise distribution, the
\* projection weight and bias or the configuration, which stay as
\* constructed; the call's buffers start as zeros; and the loss returned is
\* the one the formulas give for this call's input, target and draws and the
\* current parameters.
ForwardStep == pc \in {"idle", "loop"} /\ pc' \in {"loop", "done"}
AsConstructed ==
    /\ self.noise = ctor.noise
    /\ self.noise_ratio = ctor.noise_ratio
    /\ self.norm_term = ctor.norm_term
    /\ self.size_average = ctor.size_average
    /\ self.ntokens = V
    /\ self.decoder.bias = InitBias
C10_ForwardIsPure ==
    [][/\ ForwardStep => (self' = self /\ heap' = heap /\ AsConstructed')
       /\ (pc = "idle" /\ pc' = "loop") =>
            /\ data_prob' = Zeros(Len(target'))
            /\ noise_in_data_probs' = Zeros2(Len(target'), self.noise_ratio)
            /\ noise_probs' = Zeros2(Len(target'), self.noise_ratio)
       /\ Returned => loss = ExpectedLoss
      ]_vars
C10_Witness ==
    /\ Returned /\ N = MaxN
    /\ AsConstructed
    /\ loss = ExpectedLoss /\ ~loss.nan

=============================================================================
